---- MODULE Spec2Model ----
(***************************************************************************)
(* Model of the PDF processing service (paddle-server).                    *)
(*                                                                         *)
(*   Spec          the HTTP service of src/app.py: concurrent              *)
(*                 POST /process-pdf handlers running on one asyncio event *)
(*                 loop and sharing processing_semaphore.                  *)
(*   SpecPipeline  one call of utils.process_pdf_file (src/utils/utils.py):*)
(*                 render, per-page loop, aggregation, teardown.           *)
(*                                                                         *)
(* Event-loop semantics used by Spec.  A handler runs without interruption *)
(* until it awaits.  The admission code is                                 *)
(*                                                                         *)
(*     if not processing_semaphore.locked():                               *)
(*         try:    await asyncio.wait_for(processing_semaphore.acquire(),  *)
(*                                        timeout=0)                       *)
(*         except asyncio.TimeoutError:  raise HTTPException(429)          *)
(*     else:       raise HTTPException(429)                                *)
(*                                                                         *)
(* asyncio.wait_for(coro, timeout) with timeout <= 0 (CPython 3.7 and      *)
(* later, asyncio/tasks.py) wraps the coroutine in a new Task, finds the   *)
(* Task not done (a new Task has not run yet), cancels it and awaits the   *)
(* cancellation, then raises TimeoutError.  A Task cancelled before its    *)
(* first step never executes the coroutine body, so Semaphore.acquire()    *)
(* does not run.  With a positive timeout the Task's first step runs       *)
(* acquire(): it takes the semaphore if it is not locked and otherwise     *)
(* queues a waiter.  Both cases are modelled; AcquireTimeout selects.      *)
(***************************************************************************)
EXTENDS Integers, Sequences, FiniteSets, TLC

\* ---------------------------------------------------------------- bounds
NumRequests == 2          \* concurrent /process-pdf requests considered
MaxPages    == 2          \* largest page count of an input document
MaxEntries  == 2          \* most layoutParsingResults entries in one reply
MaxHealth   == 2          \* GET /health requests considered
MaxSide     == 12         \* largest image width and height
MaxTarget   == 16         \* largest longest_side given to the resize

Reqs == 1..NumRequests

\* ------------------------------------------------------------- variables
VARIABLES
    processing_semaphore, \* app.py:29  [value, waiters]
    pc,                   \* per request: position in process_pdf
    task,                 \* per request: the Task wait_for made of acquire()
    filename,             \* per request: kind of file.filename
    status,               \* per request: HTTP status answered (0 = none yet)
    acquired,             \* per request: number of successful acquires
    released,             \* per request: number of release() calls
    freeOnArrival,        \* per request: no run in flight, no attempt pending
    file_pages,           \* per request: page count of the uploaded document
    longest_side,         \* per request: the longest_side query parameter
    health_count,         \* GET /health requests answered so far
    health_response,      \* the latest GET /health response
    ppc,                  \* process_pdf_file: position of the run
    doc,                  \* process_pdf_file: the input document
    image_paths,          \* utils.py:204 pages rendered to images
    idx,                  \* utils.py:209 loop variable i (0-based)
    all_markdowns,        \* utils.py:207 accumulated page records
    temp_dir,             \* utils.py:199 temp_pdf_images exists on disk
    calls,                \* page images sent with requests.post, in order
    pageFailures,         \* [page, cause] of every page that failed so far
    failedIn,             \* orchestrator state the run was in when it raised
    image_shape,          \* resize_longest_side: <<width, height>> of the input
    target,               \* resize_longest_side: the longest_side argument
    resized,              \* resize_longest_side: <<new_width, new_height>>
    rstate                \* resize_longest_side: "input", "resized", "raised"

svcVars  == <<processing_semaphore, pc, task, filename, status, acquired,
              released, freeOnArrival, file_pages, longest_side,
              health_count, health_response>>
pipeVars == <<ppc, doc, image_paths, idx, all_markdowns, temp_dir, calls,
              pageFailures, failedIn>>
resizeVars == <<image_shape, target, resized, rstate>>
vars     == <<svcVars, pipeVars, resizeVars>>

\* ------------------------------------------------ the admission gate
\* app.py:66  timeout=0 passed to asyncio.wait_for
AcquireTimeout == 0

\* app.py:29  processing_semaphore = asyncio.Semaphore(1)
SemaphoreInit == [value |-> 1, waiters |-> <<>>]

\* app.py:63  processing_semaphore.locked(): the counter is zero or a
\* waiter is queued
locked(s) == s.value = 0 \/ s.waiters # <<>>

\* app.py:66  the first step of the Task running Semaphore.acquire(), when
\* the Task is allowed to start: take the semaphore, or queue behind it
acquire(s, r) ==
    IF ~locked(s) THEN [s EXCEPT !.value = @ - 1]
                  ELSE [s EXCEPT !.waiters = Append(@, r)]

\* app.py:129  processing_semaphore.release(): increment the counter and hand
\* it to the first waiter if there is one
release(s) ==
    IF s.waiters = <<>> THEN [s EXCEPT !.value = @ + 1]
                        ELSE [s EXCEPT !.waiters = Tail(@)]

\* cancelling a queued acquire() removes its waiter (app.py:66, on timeout)
RemoveWaiter(s, r) ==
    [s EXCEPT !.waiters = SelectSeq(@, LAMBDA q : q # r)]

\* (variant: wait_for with a positive timeout, the Task always starts)
TaskStartsAlways == TRUE
\* app.py:66  does wait_for let the acquire() Task run its first step?  With
\* timeout <= 0 the Task is cancelled before it starts.
TaskStarts == AcquireTimeout > 0

\* (variant: the TimeoutError is caught and the handler carries on)
TimeoutErrorSwallowed == "proceed"
\* app.py:67-72  the handler's reaction to asyncio.TimeoutError: answer 429
TimeoutErrorHandler == "raise429"

\* (variant: the 429 is raised inside the try, so the finally releases)
RejectInsideTry == TRUE
\* app.py:63-79  both 429 raises happen before the try of line 80, so the
\* finally of lines 127-129 does not run for a rejected request
RejectReleases == FALSE

\* app.py:69-72, 75-78  the status of a rejected request
BusyStatus == 429

\* a request is past the gate from a successful acquire until its release
InFlight(r) == pc[r] = "admitted"

\* no run is in flight and no admission attempt is pending
Quiet(r) == /\ ~locked(processing_semaphore)
            /\ \A q \in Reqs \ {r} : pc[q] \in {"idle", "done", "cancelled"}

\* the semaphore after a request has been rejected
AfterReject(s) == IF RejectReleases THEN release(s) ELSE s

\* config.py:4, app.py:47  the default of the longest_side parameter
DEFAULT_LONGEST_SIDE == 1280

\* the uploads considered: a file that is not a PDF, and PDFs of no page or
\* of MaxPages pages sent with the default longest_side or with 0
Uploads ==
    {[filename |-> "txt", pages |-> 0, longest_side |-> DEFAULT_LONGEST_SIDE]}
    \cup {[filename |-> "pdf", pages |-> n, longest_side |-> ls] :
             n \in {0, MaxPages}, ls \in {0, DEFAULT_LONGEST_SIDE}}

\* ------------------------------------------------ POST /process-pdf
\* app.py:43-78  the handler starts: it tests locked() and either raises 429
\* (lines 73-78) or enters wait_for, which creates the acquire() Task,
\* requests its cancellation when the timeout is not positive, and suspends
Arrive(r, up) ==
    /\ pc[r] = "idle"
    /\ filename' = [filename EXCEPT ![r] = up.filename]
    /\ file_pages' = [file_pages EXCEPT ![r] = up.pages]
    /\ longest_side' = [longest_side EXCEPT ![r] = up.longest_side]
    /\ freeOnArrival' = [freeOnArrival EXCEPT ![r] = Quiet(r)]
    /\ IF locked(processing_semaphore)
         THEN /\ pc' = [pc EXCEPT ![r] = "done"]
              /\ status' = [status EXCEPT ![r] = BusyStatus]
              /\ released' = [released EXCEPT ![r] =
                                 IF RejectReleases THEN @ + 1 ELSE @]
              /\ processing_semaphore' = AfterReject(processing_semaphore)
              /\ task' = task
         ELSE /\ pc' = [pc EXCEPT ![r] = "wait_for"]
              /\ task' = [task EXCEPT ![r] = "pending"]
              /\ UNCHANGED <<status, released, processing_semaphore>>
    /\ UNCHANGED <<acquired, health_count, health_response, pipeVars, resizeVars>>

\* app.py:66  the event loop runs the first step of the acquire() Task.  A
\* Task cancelled before its first step never runs the coroutine body.
AcquireTaskStep(r) ==
    /\ pc[r] = "wait_for"
    /\ task[r] = "pending"
    /\ IF TaskStarts
         THEN /\ processing_semaphore' = acquire(processing_semaphore, r)
              /\ task' = [task EXCEPT ![r] =
                    IF locked(processing_semaphore) THEN "queued"
                                                    ELSE "acquired"]
              /\ acquired' = [acquired EXCEPT ![r] =
                    IF locked(processing_semaphore) THEN @ ELSE @ + 1]
         ELSE /\ task' = [task EXCEPT ![r] = "cancelled"]
              /\ UNCHANGED <<processing_semaphore, acquired>>
    /\ UNCHANGED <<pc, filename, status, released, freeOnArrival, file_pages,
                   longest_side, health_count, health_response, pipeVars, resizeVars>>

\* app.py:66-72  wait_for returns to the handler: with the result of
\* acquire(), or with TimeoutError when the Task was cancelled (a queued
\* acquire() is cancelled when the timeout fires and its waiter removed)
WaitForReturns(r) ==
    /\ pc[r] = "wait_for"
    /\ task[r] \in {"cancelled", "acquired", "queued"}
    /\ IF task[r] = "acquired" \/ TimeoutErrorHandler # "raise429"
         THEN /\ pc' = [pc EXCEPT ![r] = "admitted"]
              /\ processing_semaphore' =
                     RemoveWaiter(processing_semaphore, r)
              /\ UNCHANGED <<status, released>>
         ELSE /\ pc' = [pc EXCEPT ![r] = "done"]
              /\ status' = [status EXCEPT ![r] = BusyStatus]
              /\ released' = [released EXCEPT ![r] =
                                 IF RejectReleases THEN @ + 1 ELSE @]
              /\ processing_semaphore' =
                     AfterReject(RemoveWaiter(processing_semaphore, r))
    /\ task' = [task EXCEPT ![r] = "none"]
    /\ UNCHANGED <<filename, acquired, freeOnArrival, file_pages, longest_side,
                   health_count, health_response, pipeVars, resizeVars>>


\* app.py:66  the request is cancelled (client gone, server shutting down)
\* while the handler is suspended inside wait_for: CancelledError leaves the
\* handler before the try of line 80, the acquire() Task is cancelled with
\* it, and no response is produced
Cancel(r) ==
    /\ pc[r] = "wait_for"
    /\ pc' = [pc EXCEPT ![r] = "cancelled"]
    /\ task' = [task EXCEPT ![r] = "none"]
    /\ processing_semaphore' =
           IF task[r] = "acquired" THEN processing_semaphore
           ELSE RemoveWaiter(processing_semaphore, r)
    /\ UNCHANGED <<filename, status, acquired, released, freeOnArrival,
                   file_pages, longest_side, health_count, health_response,
                   pipeVars, resizeVars>>

\* ------------------------------------------------ GET /health
\* (variant: the health check reports the gate's state)
health_check_reports_busy ==
    [status_code |-> 200,
     status |-> IF \E r \in Reqs : pc[r] = "wait_for" THEN "busy"
                                                       ELSE "healthy",
     service |-> "pdf-processing-service", version |-> "1.0.0"]
\* app.py:31-41  health_check: a constant body, answered 200
health_check ==
    [status_code |-> 200, status |-> "healthy",
     service |-> "pdf-processing-service", version |-> "1.0.0"]

\* app.py:31-41  a GET /health request is handled: the handler has no await
\* and touches neither the semaphore nor any request
Health ==
    /\ health_count < MaxHealth
    /\ health_count' = health_count + 1
    /\ health_response' = health_check
    /\ UNCHANGED <<processing_semaphore, pc, task, filename, status, acquired,
                   released, freeOnArrival, file_pages, longest_side,
                   pipeVars, resizeVars>>

\* ------------------------------------------------ process_pdf_file
\* input documents: a byte stream fitz cannot open, or a PDF of 0..MaxPages
\* pages whose pages all rasterize or not
Docs ==
    {[valid |-> FALSE, pages |-> 0, renders |-> TRUE]}
    \cup {[valid |-> TRUE, pages |-> n, renders |-> TRUE] : n \in 0..MaxPages}
    \cup {[valid |-> TRUE, pages |-> n, renders |-> FALSE] : n \in 1..MaxPages}

\* a markdown text holding a code point that stdout cannot encode (a lone
\* surrogate, which response.json() accepts from the escape \ud800)
LoneSurrogate == MaxPages + 1

\* markdown texts: 0 is the empty string, 1..MaxPages are non-empty texts
\* that stdout can encode, LoneSurrogate is one that it cannot
Texts == 0..LoneSurrogate

\* utils.py:271  print(json_output[:20000]) raises UnicodeEncodeError when a
\* record's text holds a code point stdout cannot encode (the texts
\* considered lie within the 20000 characters of the preview)
print_raises(records) ==
    \E k \in 1..Len(records) : records[k].md_content = LoneSurrogate

\* what requests.post can give back for one page: an exception, or a response
\* with a status and a JSON body that has the result envelope
\* (result.layoutParsingResults[*].markdown.text) or lacks it
Replies ==
    {[raised |-> TRUE, status_code |-> 0, envelope |-> FALSE, texts |-> <<>>]}
    \cup {[raised |-> FALSE, status_code |-> 500, envelope |-> FALSE,
           texts |-> <<>>]}
    \cup {[raised |-> FALSE, status_code |-> 200, envelope |-> FALSE,
           texts |-> <<>>]}
    \cup {[raised |-> FALSE, status_code |-> 200, envelope |-> TRUE,
           texts |-> t] :
             t \in UNION {[1..n -> Texts] : n \in 0..MaxEntries}}

\* (variant: the page images are listed last page first)
pdf_to_images_reversed(d) == [k \in 1..d.pages |-> d.pages + 1 - k]
\* utils.py:123-166  pdf_to_images: the image paths page_001.., in page order
pdf_to_images(d) == [k \in 1..d.pages |-> k]

\* utils.py:110-121  process_layout_parsing_result: assert status 200, then
\* response.json()["result"]; ok = FALSE stands for the exception raised
process_layout_parsing_result(reply) ==
    IF reply.status_code # 200 THEN [ok |-> FALSE, result |-> <<>>]
    ELSE IF ~reply.envelope THEN [ok |-> FALSE, result |-> <<>>]
    ELSE [ok |-> TRUE, result |-> reply.texts]

\* utils.py:168-184  extract_markdown_from_result: one dict item
\* "page<j>" -> text per entry of layoutParsingResults, in order
extract_markdown_from_result(result) ==
    [j \in 1..Len(result) |-> [page_name |-> j, content |-> result[j]]]

\* utils.py:246-259  the page records appended for loop index i
PageRecords(i, page_markdowns) ==
    [j \in 1..Len(page_markdowns) |->
        [page |-> i + 1, md_content |-> page_markdowns[j].content]]

\* utils.py:274-277  the finally clause: the image directory is removed when
\* it exists
rmtree(exists) == IF exists THEN FALSE ELSE exists

\* utils.py:201, 274  the cleanup is the finally of the try that encloses the
\* whole run, so it also runs when an exception leaves the function
cleanup_on_exception == TRUE

\* the image directory after an exception has left the function
AfterException(exists) == IF cleanup_on_exception THEN rmtree(exists)
                                                  ELSE exists

\* utils.py:201-205, 274-277  the call starts: pdf_to_images creates the
\* directory, opens the document and renders every page; an exception runs
\* the finally (rmtree) and leaves the function
CallProcessPdfFile(d) ==
    /\ ppc = "idle"
    /\ doc' = d
    /\ IF d.valid /\ d.renders
         THEN /\ ppc' = "loop"
              /\ image_paths' = pdf_to_images(d)
              /\ temp_dir' = TRUE
              /\ failedIn' = failedIn
         ELSE /\ ppc' = "failed"
              /\ failedIn' = "Rendering"
              /\ temp_dir' = AfterException(TRUE)
              /\ image_paths' = image_paths
    /\ UNCHANGED <<idx, all_markdowns, calls, pageFailures, svcVars, resizeVars>>

\* utils.py:209-232  one loop iteration up to the remote call: cv2.imread
\* (None: continue with the next page), resize and encode (an exception
\* leaves the function through the finally), then requests.post is issued
PreparePage(readable, encodes) ==
    /\ ppc = "loop"
    /\ idx < Len(image_paths)
    /\ IF ~readable
         THEN /\ idx' = idx + 1
              /\ pageFailures' = pageFailures \cup
                     {[page |-> idx + 1, cause |-> "imread"]}
              /\ UNCHANGED <<ppc, temp_dir, calls, failedIn>>
         ELSE IF ~encodes
         THEN /\ ppc' = "failed"
              /\ failedIn' = "PerPageProcessing"
              /\ temp_dir' = AfterException(temp_dir)
              /\ pageFailures' = pageFailures \cup
                     {[page |-> idx + 1, cause |-> "encode"]}
              /\ UNCHANGED <<idx, calls>>
         ELSE /\ ppc' = "calling"
              /\ calls' = Append(calls, image_paths[idx + 1])
              /\ UNCHANGED <<idx, temp_dir, pageFailures, failedIn>>
    /\ UNCHANGED <<doc, image_paths, all_markdowns, svcVars, resizeVars>>

\* utils.py:232-260  requests.post returns (or raises); the result is
\* checked and its markdown appended; an exception leaves the function
\* through the finally
RemoteReturns(reply) ==
    /\ ppc = "calling"
    /\ IF ~reply.raised /\ process_layout_parsing_result(reply).ok
         THEN /\ all_markdowns' = all_markdowns \o
                    PageRecords(idx, extract_markdown_from_result(
                        process_layout_parsing_result(reply).result))
              /\ idx' = idx + 1
              /\ ppc' = "loop"
              /\ UNCHANGED <<temp_dir, pageFailures, failedIn>>
         ELSE /\ ppc' = "failed"
              /\ failedIn' = "PerPageProcessing"
              /\ temp_dir' = AfterException(temp_dir)
              /\ pageFailures' = pageFailures \cup
                     {[page |-> idx + 1, cause |-> "remote"]}
              /\ UNCHANGED <<idx, all_markdowns>>
    /\ UNCHANGED <<doc, image_paths, calls, svcVars, resizeVars>>

\* utils.py:262-277  after the last page: the records are written out with
\* json.dumps and a preview of the text is printed; the JSON text is returned,
\* or the print raises and the exception leaves the function; either way
\* the finally removes the image directory
ReturnJson ==
    /\ ppc = "loop"
    /\ idx = Len(image_paths)
    /\ IF print_raises(all_markdowns)
         THEN /\ ppc' = "failed"
              /\ failedIn' = "Aggregating"
              /\ temp_dir' = AfterException(temp_dir)
         ELSE /\ ppc' = "done"
              /\ failedIn' = failedIn
              /\ temp_dir' = rmtree(temp_dir)
    /\ UNCHANGED <<doc, image_paths, idx, all_markdowns, calls, pageFailures,
                   svcVars, resizeVars>>

\* utils.py:268-269  json.dumps(all_markdowns): the records written out one
\* after the other, page then md_content
json_dumps(records) ==
    [k \in 1..(2 * Len(records)) |->
        IF k % 2 = 1 THEN records[(k + 1) \div 2].page
                     ELSE records[k \div 2].md_content]

\* app.py:105  json.loads(result_json): the records read back
json_loads(text) ==
    [j \in 1..(Len(text) \div 2) |->
        [page |-> text[2 * j - 1], md_content |-> text[2 * j]]]

\* utils.py:272  the value process_pdf_file returns
json_output == json_dumps(all_markdowns)

\* app.py:105  result_data of the handler
result_data == json_loads(json_output)

\* app.py:111  "total_pages": len(result_data)
total_pages == Len(result_data)

\* ------------------------------------------------ resize_longest_side
\* utils.py:36-43  the inputs for which the double product
\* side * (longest_side / longest) falls just below the exact integer
\* quotient, so that int() gives one less: <<side, longest, longest_side>>
\* (all such inputs with sides up to 14 and longest_side up to 18)
FloatShortfall == {<<11, 11, 15>>, <<13, 13, 15>>}

\* utils.py:36-43  int(side * scale) with scale = longest_side / longest
int_scaled(side, longest, T) ==
    (side * T) \div longest
        - (IF <<side, longest, T>> \in FloatShortfall THEN 1 ELSE 0)

\* (variant: the scale is taken from the shorter side)
resize_by_shorter_side(width, height, T) ==
    IF width > height THEN <<int_scaled(width, height, T), T>>
                      ELSE <<T, int_scaled(height, width, T)>>
\* utils.py:30-43  resize_longest_side: <<new_width, new_height>>
resize_longest_side(width, height, T) ==
    IF width > height THEN <<T, int_scaled(height, width, T)>>
                      ELSE <<int_scaled(width, height, T), T>>

\* utils.py:46  cv2.resize raises when a target dimension is not positive
cv2_resize_raises(size) == size[1] <= 0 \/ size[2] <= 0

\* utils.py:19-48  resize_longest_side is applied to the input image
Resize ==
    /\ rstate = "input"
    /\ resized' = resize_longest_side(image_shape[1], image_shape[2], target)
    /\ rstate' = IF cv2_resize_raises(resized') THEN "raised" ELSE "resized"
    /\ UNCHANGED <<image_shape, target, svcVars, pipeVars>>

\* ---------------------------------------------------------------- Init
Init ==
    /\ processing_semaphore = SemaphoreInit
    /\ pc = [r \in Reqs |-> "idle"]
    /\ task = [r \in Reqs |-> "none"]
    /\ filename = [r \in Reqs |-> "none"]
    /\ status = [r \in Reqs |-> 0]
    /\ acquired = [r \in Reqs |-> 0]
    /\ released = [r \in Reqs |-> 0]
    /\ freeOnArrival = [r \in Reqs |-> FALSE]
    /\ file_pages = [r \in Reqs |-> 0]
    /\ longest_side = [r \in Reqs |-> DEFAULT_LONGEST_SIDE]
    /\ health_count = 0
    /\ health_response = [status_code |-> 0, status |-> "none",
                          service |-> "none", version |-> "none"]
    /\ ppc = "idle"
    /\ doc = [valid |-> TRUE, pages |-> 0, renders |-> TRUE]
    /\ image_paths = <<>>
    /\ idx = 0
    /\ all_markdowns = <<>>
    /\ temp_dir = FALSE
    /\ calls = <<>>
    /\ pageFailures = {}
    /\ failedIn = "none"
    /\ image_shape = <<1, 1>>
    /\ target = DEFAULT_LONGEST_SIDE
    /\ resized = <<0, 0>>
    /\ rstate = "input"

Next ==
    \/ \E r \in Reqs :
          \/ \E up \in Uploads : Arrive(r, up)
          \/ AcquireTaskStep(r)
          \/ WaitForReturns(r)
          \/ Cancel(r)
    \/ Health

Spec == Init /\ [][Next]_vars

NextPipeline ==
    \/ \E d \in Docs : CallProcessPdfFile(d)
    \/ \E readable, encodes \in BOOLEAN : PreparePage(readable, encodes)
    \/ \E reply \in Replies : RemoteReturns(reply)
    \/ ReturnJson

SpecPipeline == Init /\ [][NextPipeline]_vars

\* the run executes synchronously to its end, and every remote call returns
SpecPipelineFair ==
    /\ SpecPipeline
    /\ WF_vars(\E readable, encodes \in BOOLEAN : PreparePage(readable, encodes))
    /\ WF_vars(\E reply \in Replies : RemoteReturns(reply))
    /\ WF_vars(ReturnJson)

\* resize_longest_side applied to every image and longest_side in the bounds
InitResize ==
    /\ processing_semaphore = SemaphoreInit
    /\ pc = [r \in Reqs |-> "idle"]
    /\ task = [r \in Reqs |-> "none"]
    /\ filename = [r \in Reqs |-> "none"]
    /\ status = [r \in Reqs |-> 0]
    /\ acquired = [r \in Reqs |-> 0]
    /\ released = [r \in Reqs |-> 0]
    /\ freeOnArrival = [r \in Reqs |-> FALSE]
    /\ file_pages = [r \in Reqs |-> 0]
    /\ longest_side = [r \in Reqs |-> DEFAULT_LONGEST_SIDE]
    /\ health_count = 0
    /\ health_response = [status_code |-> 0, status |-> "none",
                          service |-> "none", version |-> "none"]
    /\ ppc = "idle"
    /\ doc = [valid |-> TRUE, pages |-> 0, renders |-> TRUE]
    /\ image_paths = <<>>
    /\ idx = 0
    /\ all_markdowns = <<>>
    /\ temp_dir = FALSE
    /\ calls = <<>>
    /\ pageFailures = {}
    /\ failedIn = "none"
    /\ image_shape \in (1..MaxSide) \X (1..MaxSide)
    /\ target \in 0..MaxTarget
    /\ resized = <<0, 0>>
    /\ rstate = "input"

NextResize == Resize

SpecResize == InitResize /\ [][NextResize]_vars

\* ================================================================ claims
\* ---- admission gate (Spec)

\* C1: in every reachable state at most one request is past the admission
\* gate, whatever the interleaving of the concurrent requests
MutualExclusion == Cardinality({r \in Reqs : InFlight(r)}) <= 1

\* two admission attempts overlapped and both have been resolved
OverlappingAttemptsResolved ==
    \E r1, r2 \in Reqs :
        /\ r1 # r2
        /\ pc[r1] = "done" /\ pc[r2] = "done"
        /\ ~freeOnArrival[r2]

\* C4: a finished request has released the gate exactly as often as it
\* acquired it, a rejected (429) request never releases it, and the
\* semaphore's value is always 0 or 1
ReleaseScopedToAcquisition ==
    /\ processing_semaphore.value \in {0, 1}
    /\ \A r \in Reqs :
          pc[r] \in {"done", "cancelled"} => released[r] = acquired[r]
    /\ \A r \in Reqs : status[r] = BusyStatus => released[r] = 0

\* a request has been rejected and the gate is as it was
RejectedWithoutRelease ==
    \E r \in Reqs :
        /\ pc[r] = "done" /\ status[r] = BusyStatus
        /\ acquired[r] = 0 /\ released[r] = 0
        /\ processing_semaphore = SemaphoreInit

\* C5: a request that arrives when no run is in flight and no other attempt
\* is pending is admitted and is not answered 429
FreeGateAdmits ==
    \A r \in Reqs : (pc[r] = "done" /\ freeOnArrival[r]) => status[r] # 429

\* C6: no request is ever queued on the gate or left waiting for another
\* request's release: a request that passed the locked() test is resolved
\* by its own next steps, which are enabled whatever the gate's state
NoQueueingOnGate ==
    /\ processing_semaphore.waiters = <<>>
    /\ \A r \in Reqs : task[r] # "queued"
    /\ \A r \in Reqs :
          pc[r] = "wait_for" =>
              ENABLED (AcquireTaskStep(r) \/ WaitForReturns(r))

\* two requests are between the locked() test and their resolution at once,
\* the acquire() Task of one of them already cancelled
TwoRequestsInsideAttempt ==
    \E r1, r2 \in Reqs :
        /\ r1 # r2
        /\ pc[r1] = "wait_for" /\ task[r1] = "cancelled"
        /\ pc[r2] = "wait_for"

\* C7: a request whose filename does not end in .pdf is answered 400 and the
\* gate is not acquired for it
NonPdfAnswered400 ==
    \A r \in Reqs :
        (pc[r] = "done" /\ filename[r] = "txt") =>
            (status[r] = 400 /\ acquired[r] = 0)

\* ---- pipeline (SpecPipeline)

\* the page numbers of the records, in result order
RecordPages == [k \in 1..Len(all_markdowns) |-> all_markdowns[k].page]

\* C8: a completed run over an N-page document returns exactly N records
\* whose page indices are 1..N in order
OneRecordPerPage == ppc = "done" => RecordPages = pdf_to_images(doc)

\* C9: a failed remote call for page k does not abort the run
RemoteFailureIsLocal ==
    \A f \in pageFailures : f.cause = "remote" => ppc # "failed"

\* C10: a run ends in Failed only from Rendering, before any remote call
FailedOnlyFromRendering ==
    ppc = "failed" => (failedIn = "Rendering" /\ calls = <<>>)

\* ---- responses, health, ordering

\* C12: a request that uploads an N-page PDF (N >= 1) to a quiet server is
\* answered 200 (with N results in page order)
PdfUploadAnswered200 ==
    \A r \in Reqs :
        (/\ pc[r] = "done" /\ freeOnArrival[r]
         /\ filename[r] = "pdf" /\ file_pages[r] >= 1
         /\ longest_side[r] > 0) => status[r] = 200

\* C13: a request that uploads a zero-page PDF to a quiet server is answered
\* 200 (with total_pages 0 and no result)
ZeroPagePdfAnswered200 ==
    \A r \in Reqs :
        (/\ pc[r] = "done" /\ freeOnArrival[r]
         /\ filename[r] = "pdf" /\ file_pages[r] = 0
         /\ longest_side[r] > 0) => status[r] = 200

\* C14: a request with a non-positive longest_side is answered 400
NonPositiveLongestSideAnswered400 ==
    \A r \in Reqs :
        (pc[r] = "done" /\ longest_side[r] <= 0) => status[r] = 400

\* the number of result entries that carry non-empty content
NonEmptyCount ==
    Cardinality({k \in 1..Len(result_data) : result_data[k].md_content # 0})

\* C15: a completed run reports total_pages equal to the document's page
\* count, and when a page failed that is more than the entries with content
PartialFailureVisible ==
    ppc = "done" =>
        /\ total_pages = doc.pages
        /\ (pageFailures # {} => total_pages > NonEmptyCount)

\* the longer and the shorter side of the input image
LongSide == IF image_shape[1] > image_shape[2] THEN image_shape[1]
                                               ELSE image_shape[2]
ShortSide == IF image_shape[1] > image_shape[2] THEN image_shape[2]
                                                ELSE image_shape[1]
LongOut == IF resized[1] > resized[2] THEN resized[1] ELSE resized[2]
ShortOut == IF resized[1] > resized[2] THEN resized[2] ELSE resized[1]

\* C16: for a positive target T the longer computed edge is within 1 of T and
\* the shorter computed edge within 1 of ShortSide * T / LongSide
NormalizerBound ==
    (rstate # "input" /\ target > 0) =>
        /\ LongOut - target \in -1..1
        /\ ShortOut * LongSide - ShortSide * target \in (0 - LongSide)..LongSide

\* a non-square image has been scaled up to a target that does not divide
\* evenly, so the shorter edge was rounded
ResizedWithRounding ==
    /\ rstate = "resized"
    /\ image_shape = <<3, 2>> /\ target = 5
    /\ resized = <<5, 3>>

\* C17: every GET /health answer is 200 / healthy / pdf-processing-service
\* with a version, a health request can always be served, and serving it
\* changes neither the gate nor any request
HealthIndependent ==
    /\ [](health_count > 0 =>
            /\ health_response.status_code = 200
            /\ health_response.status = "healthy"
            /\ health_response.service = "pdf-processing-service"
            /\ health_response.version # "none")
    /\ [](health_count < MaxHealth => ENABLED Health)
    /\ [][health_count' # health_count =>
            UNCHANGED <<processing_semaphore, pc, task, status, acquired,
                        released, pipeVars>>]_vars

\* two health requests in a row were answered while a /process-pdf request
\* was inside its admission attempt
HealthServedDuringAttempt ==
    /\ health_count = 2
    /\ health_response.status_code = 200
    /\ \E r \in Reqs : pc[r] = "wait_for"

\* C18: the remote calls of a run are issued one page at a time in ascending
\* page order, each page at most once, and the call for the next page only
\* after the outcome of the previous one
SequentialNoRetry ==
    /\ \A j \in 1..(Len(calls) - 1) : calls[j] < calls[j + 1]
    /\ \A j \in 1..Len(calls) : calls[j] <= idx + 1
    /\ ppc = "calling" => calls[Len(calls)] = idx + 1
    /\ ppc \in {"loop", "done"} => \A j \in 1..Len(calls) : calls[j] <= idx

\* both pages of a document were sent, the second call failed and was not
\* repeated
SecondCallFailedOnce ==
    /\ calls = <<1, 2>>
    /\ ppc = "failed"
    /\ [page |-> 2, cause |-> "remote"] \in pageFailures

\* ---- normalization algorithm, result entries, output dimensions

\* C21: for a positive target T the computed dimensions are exactly
\* (round(w * s), round(h * s)) with s = T / max(w, h), rounding to nearest
\* on both axes (a value halfway between two integers may go either way),
\* and a square image gets both edges equal to T
RoundToNearestOnBothAxes ==
    (rstate # "input" /\ target > 0) =>
        LET w == image_shape[1]
            h == image_shape[2]
            nearest(out, side) ==
                2 * (out * LongSide - side * target) \in (0 - LongSide)..LongSide
        IN  /\ nearest(resized[1], w)
            /\ nearest(resized[2], h)
            /\ (w = h => resized = <<target, target>>)

\* C22: the page numbers of the records are strictly increasing, and every
\* page whose remote call was answered 200 and accepted has exactly one
\* record, however many entries layoutParsingResults had
OneRecordPerAnsweredPage ==
    /\ \A k \in 1..(Len(all_markdowns) - 1) :
          all_markdowns[k].page < all_markdowns[k + 1].page
    /\ ppc \in {"loop", "done"} =>
          \A j \in 1..Len(calls) :
              Cardinality({k \in 1..Len(all_markdowns) :
                              all_markdowns[k].page = calls[j]}) = 1

\* C23: for an image of positive width and height and a positive target both
\* computed dimensions are at least 1
OutputDimensionsPositive ==
    (/\ rstate # "input" /\ target > 0
     /\ image_shape[1] > 0 /\ image_shape[2] > 0) =>
        (resized[1] >= 1 /\ resized[2] >= 1)

====
